---- MODULE Spec2Model ----
(***************************************************************************)
(* The resumable document segmenter of crisis-hackaton:                    *)
(* LegalTextSegmenter.process_document and _call_gemini_segment, in the    *)
(* three variants the repository holds                                     *)
(*   "sc"  src/common/semantic_chunker.py   (failure branch, max_segments) *)
(*   "pl"  src/app/pipeline.py              (no failure branch)            *)
(*   "bp"  src/common/build_pinecone_db.py  (reinitialize, then give the   *)
(*                                           input back as remainder)      *)
(* Texts are sequences of characters.  The external generative service is  *)
(* the environment: each call either fails all its attempts or returns a   *)
(* parsed response {chunks, remainder}.                                    *)
(***************************************************************************)
EXTENDS Integers, Sequences, FiniteSets, TLC

\* ------------------------------------------------------------- bounds
\* longest document text
MaxDocLen == 3
\* longest remainder an arbitrary service response carries
MaxRemLen == 2
\* largest value of MAX_SEGMENT_SIZE explored
MaxSegSize == 2
\* largest max_segments cap explored
MaxCap == 2
\* segment_index is only printed and compared with max_segments; it is
\* counted up to MaxIndex (> MaxCap) and held there
MaxIndex == 3
\* chunks an arbitrary service may add to one run in all
MaxChunks == 2

\* most PDFs in the folder given to process_folder
MaxPdfs == 2
\* most chunks handed to upsert_to_pinecone when it is called on its own
\* (one more than UPSERT_BATCH_SIZE)
MaxUpsertLen == 101
\* most upsert_records calls made for the same chunks
MaxUpsertCalls == 2

\* for attempt in range(3)
MaxAttempts == 3
\* UPSERT_BATCH_SIZE = 100
UPSERT_BATCH_SIZE == 100

Chars == {"a", "b"}
\* max_segments = None (no cap)
NoCap == -1

Strs(n) == UNION {[1..k -> Chars] : k \in 0..n}

Variants == {"sc", "pl", "bp"}
\* "loose": a service held to nothing: any JSON object may come back, with
\*          "remainder" null or missing, and chunks whose title, jurisdiction
\*          and language are not those of the hint
\* "article": the stub of the ARTICLE scenario: one chunk per complete
\*          ARTICLE section of its input, the incomplete tail as remainder
\* "echo":  the stub of the no-loss property (remainder "", the whole input
\*          as one chunk, never failing);
\* "split": a faithful service: the remainder is a verbatim suffix of the
\*          input (possibly all of it, possibly ""), the text before it comes
\*          back as one or two chunks; a call may also fail;
\* "any":   an arbitrary service (any remainder string, or failure)
Stubs == {"echo", "split", "any"}

\* ------------------------------------------------------ pure functions
\* Python's clamping of a slice index against a sequence of length n
PyIndex(n, i) ==
    IF i < 0 THEN (IF n + i < 0 THEN 0 ELSE n + i)
             ELSE (IF i > n THEN n ELSE i)

\* Python's s[i:j] (i, j any integers, negative ones counted from the end)
PySlice(s, i, j) ==
    LET lo == PyIndex(Len(s), i)
        hi == PyIndex(Len(s), j)
    IN  IF lo >= hi THEN <<>> ELSE SubSeq(s, lo + 1, hi)

RECURSIVE Concat(_)
\* the concatenation, in order, of a sequence of texts
Concat(ss) == IF ss = <<>> THEN <<>> ELSE Head(ss) \o Concat(Tail(ss))

VARIABLES
    variant,            \* which source file's segmenter runs
    stub,               \* how the service behaves in this run
    doc,                \* full_raw_text
    MAX_SEGMENT_SIZE,   \* the configured window size
    max_segments,       \* the optional cap (NoCap when None; "sc" only)
    cursor,
    current_remainder,
    segment_index,
    all_final_chunks,   \* sequence of [id, text]
    new_segment,        \* the fresh slice of the latest window
    input_text,         \* the text submitted by the latest segmentation call
    result,             \* what the latest segmentation call returned
    next_id,            \* identifiers minted so far (uuid4 as fresh values)
    attempts,           \* failed attempts of the running _call_gemini_segment
    returned,           \* every chunk text the service has returned, in
                        \* the order returned (history of the service)
    stage,              \* where the orchestrator stands ("direct": none,
                        \* process_document was called on its own)
    tmp_file,           \* the NamedTemporaryFile: "none", "exists", "removed"
    initial_metadata,   \* what the classifier returned: "None" or "dict"
    cls_attempts,       \* failed attempts of the running classifier call
    cls_response,       \* the classifier's latest response (history)
    upsert_calls,       \* upsert_records calls made for this document
    exit_path,          \* how the orchestrator left this document (history)
    pdfs_left,          \* PDFs of the folder not started yet
    records,            \* the argument of the latest upsert_records call
    store,              \* the vector store's entries under this document's
                        \* identifiers: record id -> record
    current,            \* the process_pdf_upload invocation whose step runs
                        \* (0: there is only one invocation)
    suspended,          \* the local variables of the other invocation
    gemini_client,      \* the module-level client object: 0 or 1, the other
                        \* one after each replacement by _reinit_client
    sleeps,             \* the time.sleep waits, in seconds, of the retry
                        \* loop that is running or has just given up
    backend,            \* populate.py: what the HelpOS backend holds
    seeder,             \* populate.py: where main() stands
    embedder,           \* embed_kb.py: the locals of get_embeddings
    requests,           \* app/index.py: the /upload_pdf requests
    pc,                 \* "loop" | "call" | "cleanup" | "final_call" |
                        \* "done" | "raised"
    last                \* the step taken last

vars == <<variant, stub, doc, MAX_SEGMENT_SIZE, max_segments, cursor,
          current_remainder, segment_index, all_final_chunks, new_segment,
          input_text, result, next_id, attempts, returned, stage, tmp_file,
          initial_metadata, cls_attempts, cls_response, upsert_calls,
          exit_path, pdfs_left, records, store, current, suspended,
          gemini_client, sleeps, backend, seeder, embedder, requests, pc,
          last>>

\* the orchestrator's own state
pipeline == <<stage, tmp_file, initial_metadata, cls_attempts, cls_response,
              upsert_calls, exit_path, pdfs_left, records, store>>

\* what upsert_to_pinecone hands over and what the index holds
vector_store == <<records, store>>

\* which invocation runs, and what the other one holds
uploads == <<current, suspended>>

\* the state of the repository's other programs
tools == <<backend, seeder, embedder, requests>>

\* what no step of an invocation changes once the document is read
config == <<variant, stub, doc, MAX_SEGMENT_SIZE, max_segments, uploads, tools,
            gemini_client, sleeps>>

\* ----------------------------------------------------- the window
total_length == Len(doc)

segment_start == cursor + Len(current_remainder)

SliceWindow_AbsoluteEnd == PySlice(doc, segment_start, MAX_SEGMENT_SIZE)

\* full_raw_text[segment_start : segment_start + MAX_SEGMENT_SIZE]
SliceWindow == PySlice(doc, segment_start, segment_start + MAX_SEGMENT_SIZE)

ConstructInput_NoCarry == SliceWindow

\* input_text = current_remainder + new_segment
ConstructInput == current_remainder \o SliceWindow

\* ----------------------------------------------------- the service
\* an opaque chunk text of an arbitrary response
OpaqueText == <<"a">>

\* the ways a faithful service returns the text p as chunks
Pieces(p) ==
    IF p = <<>> THEN {<<>>}
    ELSE {<<p>>} \cup {<<SubSeq(p, 1, j), SubSeq(p, j + 1, Len(p))>> :
                          j \in 1..(Len(p) - 1)}

\* A chunk as the service returns it: its text, and whether its title,
\* jurisdiction and language are those of the DOCUMENT METADATA HINT of the
\* prompt ("doc") or something else ("other")
RawChunk(t, m) == [text |-> t, meta |-> m]

\* chunks with these texts that repeat the hint
WithHint(texts) == [i \in 1..Len(texts) |-> RawChunk(texts[i], "doc")]

\* the chunk lists of an arbitrary response: none, or one opaque chunk
OpaqueChunks(metas) ==
    IF Len(all_final_chunks) < MaxChunks
    THEN {<<>>} \cup {<<RawChunk(OpaqueText, m)>> : m \in metas}
    ELSE {<<>>}

\* ---- the stub of the ARTICLE scenario
ArticleMarker == <<"A", "R", "T", "I", "C", "L", "E">>

\* where a section begins: at the start of the text and at every "ARTICLE"
SectionStarts(text) ==
    {1} \cup {i \in 1..Len(text) :
                /\ i + Len(ArticleMarker) - 1 <= Len(text)
                /\ SubSeq(text, i, i + Len(ArticleMarker) - 1) = ArticleMarker}

RECURSIVE EndsSentence(_)
\* a section is complete when it closes with a full stop (blanks aside)
EndsSentence(sec) ==
    IF sec = <<>> THEN FALSE
    ELSE IF sec[Len(sec)] = " " THEN EndsSentence(SubSeq(sec, 1, Len(sec) - 1))
    ELSE sec[Len(sec)] = "."

RECURSIVE CompleteSections(_, _)
\* the complete sections of text from position p on, up to the first
\* incomplete one
CompleteSections(text, p) ==
    IF p > Len(text) THEN <<>>
    ELSE LET later == {i \in SectionStarts(text) : i > p}
             e == IF later = {} THEN Len(text)
                  ELSE (CHOOSE i \in later : \A j \in later : i <= j) - 1
             sec == SubSeq(text, p, e)
         IN  IF EndsSentence(sec) THEN <<sec>> \o CompleteSections(text, e + 1)
                                  ELSE <<>>

\* one chunk per complete ARTICLE section, the incomplete trailing text as
\* remainder
ArticleResponse(text) ==
    LET cs == CompleteSections(text, 1)
    IN  [chunks |-> WithHint(cs),
         remainder |-> SubSeq(text, Len(Concat(cs)) + 1, Len(text)),
         absent |-> FALSE, failed |-> FALSE]

\* The parsed responses json.loads(response.text) may give for `text`
ServiceResponses(text) ==
    IF stub \in {"echo", "flaky"}
    THEN {[chunks |-> WithHint(<<text>>), remainder |-> <<>>,
           absent |-> FALSE, failed |-> FALSE]}
    ELSE IF stub = "split"
    THEN UNION {{[chunks |-> WithHint(cs),
                  remainder |-> SubSeq(text, Len(text) - k + 1, Len(text)),
                  absent |-> FALSE, failed |-> FALSE] :
                    cs \in Pieces(SubSeq(text, 1, Len(text) - k))} :
                k \in 0..Len(text)}
    ELSE IF stub = "article"
    THEN {ArticleResponse(text)}
    ELSE IF stub = "any"
    THEN {[chunks |-> cs, remainder |-> r, absent |-> FALSE,
           failed |-> FALSE] :
            cs \in OpaqueChunks({"doc"}), r \in Strs(MaxRemLen)}
    ELSE {[chunks |-> cs, remainder |-> r, absent |-> FALSE,
           failed |-> FALSE] :
            cs \in OpaqueChunks({"doc", "other"}), r \in Strs(MaxRemLen)}
         \cup
         {[chunks |-> cs, remainder |-> <<>>, absent |-> TRUE,
           failed |-> FALSE] : cs \in OpaqueChunks({"doc", "other"})}

\* What _call_gemini_segment returns once its attempts are exhausted.
\* absent: the "remainder" entry is None; failed: the call was abandoned.
FallbackNoRemainder(text) ==
    [chunks |-> <<>>, remainder |-> <<>>, absent |-> TRUE, failed |-> TRUE]

FallbackInputAsRemainder(text) ==
    [chunks |-> <<>>, remainder |-> text, absent |-> FALSE, failed |-> TRUE]

Fallback(text) ==
    IF variant = "bp" THEN FallbackInputAsRemainder(text)
                      ELSE FallbackNoRemainder(text)

\* the attempts one _call_gemini_segment makes: range(3), and in "bp" one
\* more after _reinit_client
AttemptBudget == IF variant = "bp" THEN MaxAttempts + 1 ELSE MaxAttempts

\* how one attempt fails: generate_content raises, or json.loads does
FailureKinds == {"network", "unparseable"}

Caught_NetworkOnly(kind) == kind = "network"

\* try: ... except Exception: both the call and json.loads are inside the try
Caught(kind) == kind \in FailureKinds

\* Every result _call_gemini_segment(text) can return now: the response of
\* this attempt while the budget lasts, the fallback once it is used up
CallGeminiSegment(text) ==
    IF attempts < AttemptBudget THEN ServiceResponses(text)
                                ELSE {Fallback(text)}

\* ----------------------------------------------------- bookkeeping
ConsumedLengthWhole(inp, rem) == Len(inp)

ConsumedLength_FreshSlice(inp, rem) == Len(new_segment)

\* consumed_length = len(input_text) - len(remainder)
ConsumedLength(inp, rem) == Len(inp) - Len(rem)

\* the failure branch's advance: cursor += len(new_segment)
ForcedSkip(seg) == Len(seg)

CapReached_OneLate(i) == max_segments # NoCap /\ i > max_segments + 1

\* if max_segments is not None and segment_index > max_segments: break
CapReached(i) == max_segments # NoCap /\ i > max_segments

NextIndex(i) == IF i < MaxIndex THEN i + 1 ELSE i

Texts(cs) == [i \in 1..Len(cs) |-> cs[i].text]

Mint_OnePerCall(chunks, n) ==
    [i \in 1..Len(chunks) |->
        [id |-> n + 1, text |-> chunks[i].text, meta |-> chunks[i].meta]]

RECURSIVE Mint(_, _)
\* chunk["id"] = str(uuid.uuid4()) for each chunk, in order
Mint(chunks, n) ==
    IF chunks = <<>> THEN <<>>
    ELSE <<[id |-> n + 1, text |-> Head(chunks).text,
            meta |-> Head(chunks).meta]>> \o Mint(Tail(chunks), n + 1)

Collect_Replaces(res) ==
    /\ all_final_chunks' = Mint(res.chunks, next_id)
    /\ next_id' = next_id + Len(res.chunks)

Collect_Prepend(res) ==
    /\ all_final_chunks' = Mint(res.chunks, next_id) \o all_final_chunks
    /\ next_id' = next_id + Len(res.chunks)

\* for chunk in result.get("chunks", []): ... self.all_final_chunks.append(chunk)
Collect(res) ==
    /\ all_final_chunks' = all_final_chunks \o Mint(res.chunks, next_id)
    /\ next_id' = next_id + Len(res.chunks)

\* the service's side of a returning call: what it handed over
Handed(res) == returned' = returned \o Texts(res.chunks)

\* populate.py before main() is called, against an empty backend
NoExit == -1

EmptyBackend == [topics |-> <<>>, forms |-> <<>>, questions |-> <<>>,
                 edits |-> 0]

\* main() about to make its first request: its position in INTERVIEW_DATA,
\* the ids held in topic and form, the POST requests it has issued, what
\* its last request did, its exit code, and whether an earlier run returned 0
SeederAtStart(run, seeded) ==
    [run |-> run, seeded |-> seeded, at |-> "topic", b |-> 1, f |-> 1,
     q |-> 1, topic |-> 0, form |-> 0, posts |-> 0, log |-> "none",
     exit |-> NoExit]

\* the other programs have not run
MaxRequests == 2

\* a request to /upload_pdf that has not arrived
NoRequest == [at |-> "idle", temp_file |-> "none", status_code |-> 0,
              exit_path |-> "none"]

\* get_embeddings entered with texts; before that it has not been called
Embedding(texts, state) ==
    [texts |-> texts, i |-> 0, attempt |-> 0, all_embeddings |-> <<>>,
     tried |-> <<>>, returned |-> state]

ToolsIdle ==
    /\ backend = EmptyBackend
    /\ seeder = SeederAtStart(1, FALSE)
    /\ embedder = Embedding(<<>>, "not_called")
    /\ requests = [r \in 1..MaxRequests |-> NoRequest]

\* ----------------------------------------------------- Init
\* no segmentation call has returned yet
NoResult == [chunks |-> <<>>, remainder |-> <<>>, absent |-> FALSE,
             failed |-> FALSE]

\* the local variables of a process_pdf_upload invocation that has not
\* taken a step
FreshUpload ==
    [doc |-> <<>>, cursor |-> 0, current_remainder |-> <<>>,
     segment_index |-> 0, all_final_chunks |-> <<>>, new_segment |-> <<>>,
     input_text |-> <<>>, result |-> NoResult, attempts |-> 0,
     returned |-> <<>>, stage |-> "entry", tmp_file |-> "none",
     initial_metadata |-> "None", cls_attempts |-> 0, cls_response |-> "none",
     upsert_calls |-> 0, exit_path |-> "none", records |-> <<>>,
     sleeps |-> <<>>, pc |-> "idle", last |-> "init"]

\* process_document(full_raw_text, max_segments) called on a new Segmenter:
\* against one of the services `stubs`, on one of the texts `docs`, with
\* MAX_SEGMENT_SIZE one of `sizes`
InitDirect(stubs, docs, sizes) ==
    /\ variant \in Variants
    /\ stub \in stubs
    /\ doc \in docs
    /\ MAX_SEGMENT_SIZE \in sizes
    /\ max_segments \in (IF variant = "sc" THEN {NoCap} \cup 1..MaxCap
                                           ELSE {NoCap})
    /\ cursor = 0
    /\ current_remainder = <<>>
    /\ segment_index = 0
    /\ all_final_chunks = <<>>
    /\ new_segment = <<>>
    /\ input_text = <<>>
    /\ result = NoResult
    /\ next_id = 0
    /\ attempts = 0
    /\ returned = <<>>
    /\ stage = "direct"
    /\ tmp_file = "none"
    /\ initial_metadata = "dict"
    /\ cls_attempts = 0
    /\ cls_response = "none"
    /\ upsert_calls = 0
    /\ exit_path = "none"
    /\ pdfs_left = 0
    /\ records = <<>>
    /\ store = <<>>
    /\ current = 0
    /\ suspended = FreshUpload
    /\ gemini_client = 0
    /\ sleeps = <<>>
    /\ ToolsIdle
    /\ pc = "loop"
    /\ last = "init"

\* ----------------------------------------------------- process_document
\* the while condition fails: leave the loop
ExitLoop ==
    /\ pc = "loop"
    /\ ~(cursor < total_length)
    /\ pc' = "cleanup"
    /\ last' = "exit"
    /\ UNCHANGED pipeline
    /\ UNCHANGED <<config, cursor, current_remainder, segment_index,
                   all_final_chunks, new_segment, input_text, result,
                   next_id, attempts, returned>>

EmptyInput_FreshOnly(inp, fresh) == fresh = <<>>

\* if not input_text: break
EmptyInput(inp, fresh) == inp = <<>>

\* the head of the while body: the cap, the window, the empty-input guard,
\* up to the point where the input is handed to _call_gemini_segment
WindowSubmit ==
    /\ pc = "loop"
    /\ cursor < total_length
    /\ segment_index' = NextIndex(segment_index)
    /\ UNCHANGED pipeline
    /\ UNCHANGED <<config, cursor, current_remainder, all_final_chunks,
                   result, next_id, attempts, returned>>
    /\ IF CapReached(segment_index')
       THEN /\ pc' = "cleanup"
            /\ last' = "cap"
            /\ UNCHANGED <<new_segment, input_text>>
       ELSE /\ new_segment' = SliceWindow
            /\ input_text' = ConstructInput
            /\ IF EmptyInput(ConstructInput, SliceWindow)
               THEN /\ pc' = "cleanup"
                    /\ last' = "empty"
               ELSE /\ pc' = "call"
                    /\ last' = "submit"

\* the success branch and, in "sc", the failure branch
ManageCursor(res) ==
    IF variant = "sc" /\ res.absent
    THEN /\ cursor' = cursor + ForcedSkip(new_segment)
         /\ current_remainder' = <<>>
    ELSE /\ cursor' = cursor + ConsumedLength(input_text, res.remainder)
         /\ current_remainder' = res.remainder

\* RETRY_DELAY_SECONDS of the file that runs
RETRY_DELAY_SECONDS == IF variant = "sc" THEN 2 ELSE 3

\* RETRY_DELAY_SECONDS * (2 ** attempt)
Backoff(attempt) == RETRY_DELAY_SECONDS * 2 ^ attempt

\* whether the except clause of the retry loop sleeps after the failed
\* attempt `attempt` (0, 1, 2): semantic_chunker.py tests attempt < 2 first,
\* the other two files sleep each time; the attempt that
\* build_pinecone_db.py makes after _reinit_client is outside the loop
WaitsAfter(attempt) ==
    IF variant = "sc" THEN attempt < MaxAttempts - 1
                      ELSE attempt < MaxAttempts

Reinitializes_EveryVariant == TRUE

\* after the three attempts of range(3), build_pinecone_db.py calls
\* self._reinit_client(); the other two files return their fallback
Reinitializes == variant = "bp"

\* _reinit_client: gemini_client = genai.Client(...) replaces the module's
\* client, unless genai.Client raises (the except clause prints and the old
\* client stays)
ReinitClient == gemini_client' \in {gemini_client, 1 - gemini_client}

\* one attempt of the running _call_gemini_segment fails: the except clause
\* takes it and the loop goes to the next attempt (an exception the clause
\* did not take would leave _call_gemini_segment)
AttemptFails ==
    /\ pc \in {"call", "final_call"}
    /\ stub # "echo"
    /\ attempts < AttemptBudget
    /\ UNCHANGED pipeline
    /\ UNCHANGED <<variant, stub, doc, MAX_SEGMENT_SIZE, max_segments,
                   uploads, tools, cursor, current_remainder, segment_index,
                   all_final_chunks, new_segment, input_text, result,
                   next_id, returned>>
    /\ \E kind \in FailureKinds :
        IF Caught(kind)
        THEN /\ attempts' = attempts + 1
             /\ sleeps' = IF WaitsAfter(attempts)
                          THEN Append(sleeps, Backoff(attempts))
                          ELSE sleeps
             /\ IF attempts' = MaxAttempts /\ Reinitializes
                THEN ReinitClient
                ELSE UNCHANGED gemini_client
             /\ UNCHANGED <<pc, last>>
        ELSE /\ attempts' = 0
             /\ pc' = "raised"
             /\ last' = "call_raise"
             /\ UNCHANGED <<gemini_client, sleeps>>

\* _call_gemini_segment returns: the rest of the while body
WindowReturn ==
    /\ pc = "call"
    /\ UNCHANGED pipeline
    /\ UNCHANGED <<variant, stub, doc, MAX_SEGMENT_SIZE, max_segments,
                   uploads, tools, gemini_client, segment_index, new_segment, input_text>>
    /\ attempts' = 0
    /\ sleeps' = <<>>
    /\ \E res \in CallGeminiSegment(input_text) :
        /\ result' = res
        /\ Handed(res)
        /\ IF variant # "sc" /\ res.absent
           THEN \* len(None): the TypeError leaves process_document
                /\ pc' = "raised"
                /\ last' = "call_fail"
                /\ UNCHANGED <<cursor, current_remainder, all_final_chunks,
                               next_id>>
           ELSE /\ ManageCursor(res)
                /\ Collect(res)
                /\ pc' = "loop"
                /\ last' = IF res.failed THEN "call_fail" ELSE "call_ok"

\* after the loop: the final cleanup pass starts if a remainder is left
CleanupSubmit ==
    /\ pc = "cleanup"
    /\ UNCHANGED pipeline
    /\ UNCHANGED <<config, cursor, current_remainder, segment_index,
                   all_final_chunks, new_segment, result, next_id,
                   attempts, returned>>
    /\ IF current_remainder # <<>>
       THEN /\ input_text' = current_remainder
            /\ pc' = "final_call"
            /\ last' = "final_submit"
       ELSE /\ pc' = "done"
            /\ last' = "final_none"
            /\ UNCHANGED input_text

AfterCleanup_RetriesRemainder(res) ==
    IF res.remainder # <<>> THEN "cleanup" ELSE "done"

\* if final_result.get("remainder"): print(...) is the last statement of
\* process_document
AfterCleanup(res) == "done"

\* the final call returns; its chunks are collected, its remainder at most
\* reported
CleanupReturn ==
    /\ pc = "final_call"
    /\ UNCHANGED pipeline
    /\ UNCHANGED <<variant, stub, doc, MAX_SEGMENT_SIZE, max_segments,
                   uploads, tools, gemini_client, cursor, current_remainder, segment_index,
                   new_segment, input_text>>
    /\ attempts' = 0
    /\ sleeps' = <<>>
    /\ \E res \in CallGeminiSegment(input_text) :
        /\ result' = res
        /\ Handed(res)
        /\ Collect(res)
        /\ pc' = AfterCleanup(res)
        /\ last' = IF res.failed THEN "final_fail" ELSE "final_ok"

Init == InitDirect(Stubs, Strs(MaxDocLen), 1..MaxSegSize)

Next ==
    \/ ExitLoop
    \/ WindowSubmit
    \/ AttemptFails
    \/ WindowReturn
    \/ CleanupSubmit
    \/ CleanupReturn

Spec == Init /\ [][Next]_vars

\* The runs against a service that never invents text (stubs "echo" and
\* "split").  A running process_document always takes its next step, and
\* every call to _call_gemini_segment returns (its attempts are bounded).
InitFaithful == Init /\ stub \in {"echo", "split"}

FairSpec == InitFaithful /\ [][Next]_vars /\ WF_vars(Next)

\* The runs against a service held to nothing (stub "loose")
InitLoose == InitDirect({"loose"}, Strs(MaxDocLen), 1..MaxSegSize)

LooseSpec == InitLoose /\ [][Next]_vars

\* The ARTICLE scenario: this document, MAX_SEGMENT_SIZE = 20, the stub
\* "article"
ScenarioDoc ==
    <<"A", "R", "T", "I", "C", "L", "E", " ", "1", ".", " ", "F", "o", "o",
      " ", "b", "a", "r", ".", " ", "A", "R", "T", "I", "C", "L", "E", " ",
      "2", ".", " ", "B", "a", "z", " ", "q", "u">>

InitScenario == InitDirect({"article"}, {ScenarioDoc}, {20})

ScenarioSpec == InitScenario /\ [][Next]_vars /\ WF_vars(Next)

\* ===================================================== orchestrators
\* process_pdf_upload (app/pipeline.py, variant "pl") handles one uploaded
\* PDF; process_folder (build_pinecone_db.py, variant "bp") walks the PDFs of
\* a folder.  Storage, extraction, the classification service and the vector
\* store are the environment: each step draws their outcome.

\* what the classifier's responses can be: every required key present, a
\* parseable object lacking one, or an exception (call or json.loads)
ClassifierResponses == {"ok", "missing_field", "error"}

ClassifierVerdict_TrustsShape(resp, failed) ==
    IF resp \in {"ok", "missing_field"} THEN "return_dict"
    ELSE IF failed + 1 < MaxAttempts THEN "retry" ELSE "return_None"

\* what one attempt of the classifier leads to, after `failed` earlier
\* attempts have raised
ClassifierVerdict(resp, failed) ==
    IF resp = "ok" THEN "return_dict"
    ELSE IF resp = "missing_field" THEN "return_None"
    ELSE IF failed + 1 < MaxAttempts THEN "retry" ELSE "return_None"

\* process_pdf_upload returns early when no chunks came out; process_folder
\* has no such check
ZeroChunkCheck == variant = "pl"

\* the stage after the work on a document is over: the finally clause of
\* process_pdf_upload, the next turn of process_folder's for loop
DocumentOver == IF variant = "pl" THEN "finally" ELSE "next_pdf"

Abort_FallThrough(path) ==
    /\ exit_path' = path
    /\ stage' = "upsert"

\* `return` inside the try of process_pdf_upload, `continue` in process_folder
Abort(path) ==
    /\ exit_path' = path
    /\ stage' = DocumentOver

UpsertOutcomeStage_Propagates(outcome) ==
    IF outcome = "raises" THEN "finally_raising" ELSE DocumentOver

\* upsert_to_pinecone returns normally whatever upsert_records did
UpsertOutcomeStage(outcome) == DocumentOver

\* LegalTextSegmenter(client, metadata) and the first line of
\* process_document
NewSegmenter ==
    /\ cursor' = 0
    /\ current_remainder' = <<>>
    /\ segment_index' = 0
    /\ all_final_chunks' = <<>>
    /\ new_segment' = <<>>
    /\ input_text' = <<>>
    /\ result' = NoResult
    /\ attempts' = 0
    /\ returned' = <<>>
    /\ pc' = "loop"
    /\ last' = "init"

\* the Segmenter of the PDF before is dropped when the loop variable moves
\* on (its identifiers are never compared with the next document's, so the
\* count of minted identifiers starts again with it)
NoSegmenter ==
    /\ cursor' = 0
    /\ current_remainder' = <<>>
    /\ segment_index' = 0
    /\ all_final_chunks' = <<>>
    /\ new_segment' = <<>>
    /\ input_text' = <<>>
    /\ result' = NoResult
    /\ attempts' = 0
    /\ returned' = <<>>
    /\ pc' = "idle"
    /\ last' = "init"

segmenter == <<cursor, current_remainder, segment_index, all_final_chunks,
               new_segment, input_text, result, attempts, returned, pc, last>>

InitPipeline ==
    /\ variant \in {"pl", "bp"}
    /\ stub \in Stubs
    /\ doc = <<>>
    /\ MAX_SEGMENT_SIZE \in 1..MaxSegSize
    /\ max_segments = NoCap
    /\ cursor = 0
    /\ current_remainder = <<>>
    /\ segment_index = 0
    /\ all_final_chunks = <<>>
    /\ new_segment = <<>>
    /\ input_text = <<>>
    /\ result = NoResult
    /\ next_id = 0
    /\ attempts = 0
    /\ returned = <<>>
    /\ stage = IF variant = "pl" THEN "entry" ELSE "next_pdf"
    /\ tmp_file = "none"
    /\ initial_metadata = "None"
    /\ cls_attempts = 0
    /\ cls_response = "none"
    /\ upsert_calls = 0
    /\ exit_path = "none"
    /\ pdfs_left \in (IF variant = "pl" THEN {0} ELSE 0..MaxPdfs)
    /\ records = <<>>
    /\ store = <<>>
    /\ current = 0
    /\ suspended = FreshUpload
    /\ gemini_client = 0
    /\ sleeps = <<>>
    /\ ToolsIdle
    /\ pc = "idle"
    /\ last = "init"

\* process_pdf_upload: if not all([gemini_client, pinecone_index, supabase])
CheckClients ==
    /\ stage = "entry"
    /\ \E ok \in BOOLEAN :
        IF ok THEN /\ stage' = "download"
                   /\ UNCHANGED exit_path
              ELSE /\ stage' = "returned"
                   /\ exit_path' = "no_clients"
    /\ UNCHANGED <<config, segmenter, next_id, tmp_file, initial_metadata,
                   cls_attempts, cls_response, upsert_calls, pdfs_left,
                   vector_store>>

\* process_pdf_upload: the first try block.  The download can raise before
\* the temporary file exists; tmp_file.write can raise after
\* NamedTemporaryFile(delete=False) has created it.  Either way the except
\* clause prints and returns.
Download ==
    /\ stage = "download"
    /\ \E outcome \in {"ok", "download_raises", "write_raises"} :
        IF outcome = "ok"
        THEN /\ tmp_file' = "exists"
             /\ stage' = "extract"
             /\ UNCHANGED exit_path
        ELSE /\ tmp_file' = IF outcome = "write_raises" THEN "exists"
                                                       ELSE tmp_file
             /\ stage' = "returned"
             /\ exit_path' = IF outcome = "write_raises" THEN "write_failed"
                                                         ELSE "download_failed"
    /\ UNCHANGED <<config, segmenter, next_id, initial_metadata,
                   cls_attempts, cls_response, upsert_calls, pdfs_left,
                   vector_store>>

\* process_folder: for pdf in pdfs
NextPdf ==
    /\ stage = "next_pdf"
    /\ IF pdfs_left > 0
       THEN /\ pdfs_left' = pdfs_left - 1
            /\ stage' = "extract"
            /\ exit_path' = "none"
            /\ initial_metadata' = "None"
            /\ cls_response' = "none"
            /\ upsert_calls' = 0
            /\ doc' = <<>>
            /\ NoSegmenter
            /\ next_id' = 0
            /\ records' = <<>>
            /\ store' = <<>>
            /\ sleeps' = <<>>
       ELSE /\ stage' = "returned"
            /\ UNCHANGED <<pdfs_left, exit_path, initial_metadata,
                           cls_response, upsert_calls, doc, segmenter,
                           next_id, vector_store, sleeps>>
    /\ UNCHANGED <<variant, stub, MAX_SEGMENT_SIZE, max_segments, uploads, tools,
                   gemini_client, tmp_file,
                   cls_attempts>>

\* full_text = extract_full_text_from_pdf(...); if not full_text: ...
ExtractFullText ==
    /\ stage = "extract"
    /\ \E full_text \in Strs(MaxDocLen) :
        /\ doc' = full_text
        /\ IF full_text = <<>> THEN Abort("empty_extraction")
                                ELSE /\ stage' = "classify"
                                     /\ UNCHANGED exit_path
    /\ cls_attempts' = 0
    /\ UNCHANGED <<variant, stub, MAX_SEGMENT_SIZE, max_segments, uploads, tools,
                   gemini_client, sleeps, segmenter,
                   next_id, tmp_file, initial_metadata, cls_response,
                   upsert_calls, pdfs_left, vector_store>>

\* one attempt of the classifier; when it returns, the orchestrator's
\* `if not initial_metadata` and, with metadata, the construction of the
\* Segmenter and the call of process_document
ExtractMetadata ==
    /\ stage = "classify"
    /\ \E resp \in ClassifierResponses :
        /\ cls_response' = resp
        /\ IF ClassifierVerdict(resp, cls_attempts) = "retry"
           THEN /\ cls_attempts' = cls_attempts + 1
                /\ sleeps' = IF WaitsAfter(cls_attempts)
                             THEN Append(sleeps, Backoff(cls_attempts))
                             ELSE sleeps
                /\ UNCHANGED <<segmenter, stage, exit_path, initial_metadata>>
           ELSE /\ cls_attempts' = 0
                /\ IF ClassifierVerdict(resp, cls_attempts) = "return_dict"
                   THEN /\ initial_metadata' =
                             IF resp = "ok" THEN "dict" ELSE "partial"
                        /\ stage' = "segment"
                        /\ NewSegmenter
                        /\ sleeps' = <<>>
                        /\ UNCHANGED exit_path
                   ELSE /\ initial_metadata' = "None"
                        /\ Abort("metadata_failed")
                        /\ sleeps' = IF resp = "error" /\ WaitsAfter(cls_attempts)
                                     THEN Append(sleeps, Backoff(cls_attempts))
                                     ELSE sleeps
                        /\ UNCHANGED segmenter
    /\ UNCHANGED <<variant, stub, doc, MAX_SEGMENT_SIZE, max_segments,
                   uploads, tools, gemini_client, next_id, tmp_file, upsert_calls, pdfs_left,
                   vector_store>>

\* process_document has returned or raised; in process_pdf_upload
\* `if not final_chunks: return`
SegmentationEnds ==
    /\ stage = "segment"
    /\ pc \in {"done", "raised"}
    /\ IF pc = "raised"
       THEN /\ exit_path' = "segmentation_raised"
            /\ stage' = "finally_raising"
       ELSE IF ZeroChunkCheck /\ all_final_chunks = <<>>
       THEN Abort("zero_chunks")
       ELSE /\ stage' = "upsert"
            /\ UNCHANGED exit_path
    /\ UNCHANGED <<config, segmenter, next_id, tmp_file, initial_metadata,
                   cls_attempts, cls_response, upsert_calls, pdfs_left,
                   vector_store>>

\* the second argument of upsert_to_pinecone: str(pdf) of the PDF at hand
\* in process_folder, the uploaded object's path in process_pdf_upload
file_path == [upload |-> current, pdf |-> pdfs_left]

BuildRecords_Reversed(chunks, path) ==
    [i \in 1..Len(chunks) |->
        [_id |-> chunks[Len(chunks) + 1 - i].id,
         text |-> chunks[Len(chunks) + 1 - i].text,
         article_number |-> "of_chunk",
         title |-> chunks[Len(chunks) + 1 - i].meta,
         jurisdiction |-> chunks[Len(chunks) + 1 - i].meta,
         pdf_source_path |-> path]]

BuildRecords_KeyedByCall(chunks, path) ==
    [i \in 1..Len(chunks) |->
        [_id |-> chunks[i].id + upsert_calls * Len(chunks),
         text |-> chunks[i].text,
         article_number |-> "of_chunk",
         title |-> chunks[i].meta,
         jurisdiction |-> chunks[i].meta,
         pdf_source_path |-> path]]

\* records = []; for chunk in chunks: record = {...}; records.append(record)
\* chunk.get("article_number") is the chunk's own value, which the model
\* does not follow; title, jurisdiction and language are its meta
BuildRecords(chunks, path) ==
    [i \in 1..Len(chunks) |->
        IF variant = "bp"
        THEN [_id |-> chunks[i].id,
              text |-> chunks[i].text,
              article_number |-> "of_chunk",
              title |-> chunks[i].meta,
              jurisdiction |-> chunks[i].meta,
              language |-> chunks[i].meta,
              pdf_source_path |-> path]
        ELSE [_id |-> chunks[i].id,
              text |-> chunks[i].text,
              article_number |-> "of_chunk",
              title |-> chunks[i].meta,
              jurisdiction |-> chunks[i].meta,
              pdf_source_path |-> path]]

RecordIds(recs) == {recs[i]._id : i \in DOMAIN recs}

\* the record of recs that an upsert leaves under the identifier k
LastWithId(recs, k) ==
    recs[CHOOSE i \in DOMAIN recs :
            /\ recs[i]._id = k
            /\ \A j \in DOMAIN recs : recs[j]._id = k => j <= i]

\* upsert_records(namespace, records) as the index applies it: a map keyed
\* by record id, where a record replaces the one with its identifier
Upserted(st, recs) ==
    [k \in DOMAIN st \cup RecordIds(recs) |->
        IF k \in RecordIds(recs) THEN LastWithId(recs, k) ELSE st[k]]

\* upsert_to_pinecone(chunks, file_path): without an index it returns at
\* once; otherwise the records are built and handed over in one
\* upsert_records call inside try/except
UpsertToPinecone ==
    /\ stage = "upsert"
    /\ \E outcome \in {"ok", "raises"} \cup
                       (IF variant = "bp" THEN {"no_index"} ELSE {}) :
        /\ upsert_calls' = IF outcome = "no_index" THEN upsert_calls
                                                   ELSE upsert_calls + 1
        /\ records' = IF outcome = "no_index" THEN records
                       ELSE BuildRecords(all_final_chunks, file_path)
        /\ store' = IF outcome = "ok" THEN Upserted(store, records')
                                      ELSE store
        /\ exit_path' = IF outcome = "ok" THEN "success"
                        ELSE IF outcome = "raises" THEN "upsert_failed"
                        ELSE "no_index"
        /\ stage' = UpsertOutcomeStage(outcome)
    /\ UNCHANGED <<config, segmenter, next_id, tmp_file, initial_metadata,
                   cls_attempts, cls_response, pdfs_left>>

\* process_pdf_upload: finally: if os.path.exists(local_pdf_path): os.remove
Finally ==
    /\ stage \in {"finally", "finally_raising"}
    /\ tmp_file' = IF tmp_file = "exists" THEN "removed" ELSE tmp_file
    /\ stage' = IF stage = "finally" THEN "returned" ELSE "raised"
    /\ UNCHANGED <<config, segmenter, next_id, initial_metadata,
                   cls_attempts, cls_response, upsert_calls, exit_path,
                   pdfs_left, vector_store>>

\* The steps of process_document are those above.  In these two files the
\* loop is left with an empty remainder only (no cap, and cursor +
\* len(current_remainder) never passes the document's end), so CleanupSubmit
\* always finds nothing to submit and the final call's return is no step here.
NextPipeline ==
    \/ CheckClients
    \/ Download
    \/ NextPdf
    \/ ExtractFullText
    \/ ExtractMetadata
    \/ ExitLoop
    \/ WindowSubmit
    \/ AttemptFails
    \/ WindowReturn
    \/ CleanupSubmit
    \/ SegmentationEnds
    \/ UpsertToPinecone
    \/ Finally

\* Every orchestrator takes its next step, and every call it makes returns.
PipelineSpec == InitPipeline /\ [][NextPipeline]_vars /\ WF_vars(NextPipeline)

\* ------------------------------------- two process_pdf_upload invocations
\* What one invocation of process_pdf_upload keeps to itself: its local
\* variables (full_text, initial_metadata, segmenter, final_chunks, ...) and
\* the attributes that LegalTextSegmenter.__init__ and process_document set
\* on its own Segmenter instance
Locals ==
    [doc |-> doc, cursor |-> cursor, current_remainder |-> current_remainder,
     segment_index |-> segment_index, all_final_chunks |-> all_final_chunks,
     new_segment |-> new_segment, input_text |-> input_text,
     result |-> result, attempts |-> attempts, returned |-> returned,
     stage |-> stage, tmp_file |-> tmp_file,
     initial_metadata |-> initial_metadata, cls_attempts |-> cls_attempts,
     cls_response |-> cls_response, upsert_calls |-> upsert_calls,
     exit_path |-> exit_path, records |-> records, sleeps |-> sleeps,
     pc |-> pc, last |-> last]

Resume_SharedChunks(saved) ==
    /\ doc' = saved.doc
    /\ cursor' = saved.cursor
    /\ current_remainder' = saved.current_remainder
    /\ segment_index' = saved.segment_index
    /\ all_final_chunks' = all_final_chunks
    /\ new_segment' = saved.new_segment
    /\ input_text' = saved.input_text
    /\ result' = saved.result
    /\ attempts' = saved.attempts
    /\ returned' = saved.returned
    /\ stage' = saved.stage
    /\ tmp_file' = saved.tmp_file
    /\ initial_metadata' = saved.initial_metadata
    /\ cls_attempts' = saved.cls_attempts
    /\ cls_response' = saved.cls_response
    /\ upsert_calls' = saved.upsert_calls
    /\ exit_path' = saved.exit_path
    /\ records' = saved.records
    /\ sleeps' = saved.sleeps
    /\ pc' = saved.pc
    /\ last' = saved.last

\* the other invocation goes on where it stood, with its own locals and its
\* own Segmenter
Resume(saved) ==
    /\ doc' = saved.doc
    /\ cursor' = saved.cursor
    /\ current_remainder' = saved.current_remainder
    /\ segment_index' = saved.segment_index
    /\ all_final_chunks' = saved.all_final_chunks
    /\ new_segment' = saved.new_segment
    /\ input_text' = saved.input_text
    /\ result' = saved.result
    /\ attempts' = saved.attempts
    /\ returned' = saved.returned
    /\ stage' = saved.stage
    /\ tmp_file' = saved.tmp_file
    /\ initial_metadata' = saved.initial_metadata
    /\ cls_attempts' = saved.cls_attempts
    /\ cls_response' = saved.cls_response
    /\ upsert_calls' = saved.upsert_calls
    /\ exit_path' = saved.exit_path
    /\ records' = saved.records
    /\ sleeps' = saved.sleeps
    /\ pc' = saved.pc
    /\ last' = saved.last

\* upload_pdf has started run_pipeline for two uploads; the scheduler moves
\* from one invocation of process_pdf_upload to the other between two steps.
\* The module's globals (the clients, the index, the configuration) are the
\* same for both.
Switch ==
    /\ variant = "pl"
    /\ current # 0
    /\ current' = 3 - current
    /\ suspended' = Locals
    /\ Resume(suspended)
    /\ UNCHANGED <<variant, stub, MAX_SEGMENT_SIZE, max_segments, next_id,
                   pdfs_left, store, gemini_client, tools>>

\* two uploads handled by process_pdf_upload, or one folder handled by
\* process_folder
InitUploadsWith(stubs) ==
    /\ variant \in {"pl", "bp"}
    /\ stub \in stubs
    /\ doc = <<>>
    /\ MAX_SEGMENT_SIZE = MaxSegSize
    /\ max_segments = NoCap
    /\ cursor = 0
    /\ current_remainder = <<>>
    /\ segment_index = 0
    /\ all_final_chunks = <<>>
    /\ new_segment = <<>>
    /\ input_text = <<>>
    /\ result = NoResult
    /\ next_id = 0
    /\ attempts = 0
    /\ returned = <<>>
    /\ stage = IF variant = "pl" THEN "entry" ELSE "next_pdf"
    /\ tmp_file = "none"
    /\ initial_metadata = "None"
    /\ cls_attempts = 0
    /\ cls_response = "none"
    /\ upsert_calls = 0
    /\ exit_path = "none"
    /\ pdfs_left = IF variant = "pl" THEN 0 ELSE MaxPdfs
    /\ records = <<>>
    /\ store = <<>>
    /\ current = IF variant = "pl" THEN 1 ELSE 0
    /\ suspended = FreshUpload
    /\ gemini_client = 0
    /\ sleeps = <<>>
    /\ ToolsIdle
    /\ pc = "idle"
    /\ last = "init"

\* the service returns what it is given
InitUploads == InitUploadsWith({"echo"})

\* the steps of NextPipeline that can be taken with this service (no attempt
\* of it fails), and the move between the two invocations
NextUploads ==
    \/ CheckClients
    \/ Download
    \/ NextPdf
    \/ ExtractFullText
    \/ ExtractMetadata
    \/ ExitLoop
    \/ WindowSubmit
    \/ WindowReturn
    \/ CleanupSubmit
    \/ SegmentationEnds
    \/ UpsertToPinecone
    \/ Finally
    \/ Switch

UploadsSpec == InitUploads /\ [][NextUploads]_vars

\* the same with a service whose attempts may fail and which, when it
\* answers, returns what it is given
InitClient == InitUploadsWith({"flaky"})

NextClient ==
    \/ NextUploads
    \/ AttemptFails

ClientSpec == InitClient /\ [][NextClient]_vars

\* ------------------------------------------- upsert_to_pinecone on its own
\* n chunks as process_document leaves them in all_final_chunks
Chunks(n) == Mint(WithHint([i \in 1..n |-> OpaqueText]), 0)

\* upsert_to_pinecone(chunks, file_path) called with chunk sequences of
\* every length up to MaxUpsertLen
InitUpsert ==
    /\ variant \in {"pl", "bp"}
    /\ stub = "echo"
    /\ doc = <<>>
    /\ MAX_SEGMENT_SIZE = 1
    /\ max_segments = NoCap
    /\ cursor = 0
    /\ current_remainder = <<>>
    /\ segment_index = 0
    /\ \E n \in 0..MaxUpsertLen :
        /\ all_final_chunks = Chunks(n)
        /\ next_id = n
    /\ new_segment = <<>>
    /\ input_text = <<>>
    /\ result = NoResult
    /\ attempts = 0
    /\ returned = <<>>
    /\ stage = "upsert"
    /\ tmp_file = "none"
    /\ initial_metadata = "dict"
    /\ cls_attempts = 0
    /\ cls_response = "none"
    /\ upsert_calls = 0
    /\ exit_path = "none"
    /\ pdfs_left = 0
    /\ records = <<>>
    /\ store = <<>>
    /\ current = 0
    /\ suspended = FreshUpload
    /\ gemini_client = 0
    /\ sleeps = <<>>
    /\ ToolsIdle
    /\ pc = "done"
    /\ last = "init"

\* upsert_to_pinecone is called again with the same chunks and file_path
UpsertAgain ==
    /\ stage = DocumentOver
    /\ upsert_calls < MaxUpsertCalls
    /\ stage' = "upsert"
    /\ UNCHANGED <<config, segmenter, next_id, tmp_file, initial_metadata,
                   cls_attempts, cls_response, upsert_calls, exit_path,
                   pdfs_left, vector_store>>

NextUpsert ==
    \/ UpsertToPinecone
    \/ UpsertAgain

UpsertSpec == InitUpsert /\ [][NextUpsert]_vars

\* ===================================================== properties
\* a run of process_document(full_raw_text) without a cap
Uncapped == max_segments = NoCap

\* C1: with the echo stub (remainder "", the whole input back as one chunk)
\* an uncapped process_document terminates, and when it has, the texts of
\* all_final_chunks concatenate to the document and cursor = L.
C1_NoLossUnderEcho ==
    (stub = "echo" /\ Uncapped) =>
        /\ <>(pc = "done")
        /\ [](pc = "done" =>
                /\ Concat(Texts(all_final_chunks)) = doc
                /\ cursor = Len(doc))

C1_Witness ==
    /\ stub = "echo" /\ Uncapped /\ pc = "done"
    /\ Len(doc) = MaxDocLen
    /\ Len(all_final_chunks) >= 2
    /\ MAX_SEGMENT_SIZE < Len(doc)

\* C2: an uncapped process_document of semantic_chunker.py reaches its end
\* after finitely many segmentation calls, whatever the service returns.
C2_AlwaysTerminates ==
    (variant = "sc" /\ Uncapped) => <>(pc = "done")

\* a window's call has just returned into the loop body
WindowReturned == pc = "call" /\ pc' = "loop"

\* C3: in semantic_chunker.py an iteration whose call failed all retries
\* leaves the cursor strictly greater than it was.
C3_FailureAdvancesCursor ==
    [][(variant = "sc" /\ WindowReturned /\ result'.absent)
          => cursor' > cursor]_vars

\* C4: once the call made on just the remainder left by the final window
\* (no fresh text) has itself returned a non-empty remainder, no further
\* segmentation call is submitted.
C4_NoCallAfterFinalize ==
    [][(/\ variant \in {"sc", "pl"}
        /\ pc = "loop"
        /\ last = "call_ok"
        /\ new_segment = <<>>
        /\ input_text # <<>>
        /\ current_remainder # <<>>)
          => pc' # "call"]_vars

\* C5: in app/pipeline.py a call that exhausted its attempts does not make
\* process_document raise: the loop goes on with an empty remainder.
C5_PipelineSkipsFailedWindow ==
    (variant = "pl" /\ last = "call_fail")
        => (pc = "loop" /\ current_remainder = <<>>)

\* C6: in build_pinecone_db.py an iteration whose call failed its 3 attempts
\* and the attempt after reinitialization leaves the cursor strictly greater
\* than it was.
C6_PoisonedWindowAdvances ==
    [][(variant = "bp" /\ WindowReturned /\ result'.failed)
          => cursor' > cursor]_vars

\* the characters of the document at offsets s .. s + MAX_SEGMENT_SIZE - 1
\* that exist (0 <= s)
DocFrom(s) ==
    LET n == IF Len(doc) - s < MAX_SEGMENT_SIZE
             THEN (IF Len(doc) - s < 0 THEN 0 ELSE Len(doc) - s)
             ELSE MAX_SEGMENT_SIZE
    IN  [i \in 1..n |-> doc[s + i]]

\* C7: when the latest call returned a non-empty remainder r on the success
\* branch and another window is submitted, its input is exactly r followed
\* by the fresh slice, of at most MAX_SEGMENT_SIZE characters, taken at
\* offset cursor + len(r).
C7_RemainderCarriedVerbatim ==
    (pc = "call" /\ ~result.absent /\ result.remainder # <<>>) =>
        LET r == result.remainder
            s == cursor + Len(r)
        IN  /\ input_text = r \o PySlice(doc, s, s + MAX_SEGMENT_SIZE)
            /\ Len(input_text) <= Len(r) + MAX_SEGMENT_SIZE
            /\ s >= 0 => input_text = r \o DocFrom(s)

C7_Witness ==
    /\ pc = "call"
    /\ ~result.absent
    /\ result.remainder # <<>>
    /\ new_segment # <<>>
    /\ cursor > 0
    /\ input_text = result.remainder \o new_segment

\* C8: at the start of every iteration cursor + len(current_remainder) is at
\* most the document length, whatever the service has returned.
C8_WindowWithinDocument ==
    pc = "loop" => cursor + Len(current_remainder) <= Len(doc)

C8_Witness ==
    /\ pc = "loop"
    /\ last = "call_ok"
    /\ Len(result.remainder) > Len(input_text)
    /\ cursor + Len(current_remainder) = Len(doc)

\* C9: the cursor never decreases and is never negative, whatever the
\* service returns.
C9_CursorMonotone ==
    [][cursor' >= cursor /\ cursor' >= 0]_vars

\* C10: after an iteration of semantic_chunker.py that takes the failure
\* branch, the next window's fresh slice starts where the failed window's
\* fresh slice ended.
C10_SkipsExactlyFreshSlice ==
    [][(variant = "sc" /\ WindowReturned /\ result'.absent)
          => cursor' + Len(current_remainder')
               = cursor + Len(current_remainder) + Len(new_segment)]_vars

\* how often x occurs in the sequence s
Count(s, x) == Cardinality({i \in DOMAIN s : s[i] = x})

\* C11: at every point of a run of process_document, all_final_chunks holds
\* every chunk the service has returned exactly once (as many entries with
\* each text as the service returned), each entry has one identifier, and no
\* two entries share an identifier.
C11_EachChunkOnceWithFreshId ==
    /\ Len(all_final_chunks) = Len(returned)
    /\ \A i \in DOMAIN returned :
         Count(Texts(all_final_chunks), returned[i]) = Count(returned, returned[i])
    /\ \A i, j \in DOMAIN all_final_chunks :
         i # j => all_final_chunks[i].id # all_final_chunks[j].id

C11_Witness ==
    /\ pc = "done"
    /\ last = "final_ok"
    /\ Len(all_final_chunks) >= 3
    /\ Len(result.chunks) = 2
    /\ \E i, j \in DOMAIN all_final_chunks :
         i # j /\ all_final_chunks[i].text = all_final_chunks[j].text

\* a step in which the running _call_gemini_segment ends
CallEnds == pc \in {"call", "final_call"} /\ pc' \notin {"call", "final_call"}

\* C12: in semantic_chunker.py and app/pipeline.py a call of
\* _call_gemini_segment never raises to its caller, it invokes the service
\* at most three times, and it returns the fallback (no chunks, remainder
\* None) exactly when three attempts have failed.
C12_SegmentCallNeverRaises ==
    [][(variant \in {"sc", "pl"} /\ pc \in {"call", "final_call"}) =>
          /\ last' # "call_raise"
          /\ attempts' <= MaxAttempts
          /\ CallEnds =>
               IF attempts = MaxAttempts
               THEN result' = [chunks |-> <<>>, remainder |-> <<>>,
                               absent |-> TRUE, failed |-> TRUE]
               ELSE /\ ~result'.failed
                    /\ ~result'.absent
                    /\ attempts + 1 <= MaxAttempts]_vars

C12_Witness ==
    /\ variant \in {"sc", "pl"}
    /\ last \in {"call_fail", "final_fail"}
    /\ result.failed
    /\ result.absent
    /\ result.chunks = <<>>

\* C20: the texts of all_final_chunks, in order, are the chunk lists the
\* successive segmentation calls returned (main loop, then the final
\* cleanup call), concatenated in call order, each in the order returned.
C20_ChunksInReturnOrder ==
    Texts(all_final_chunks) = returned

C20_Witness ==
    /\ pc = "done"
    /\ last = "final_ok"
    /\ Len(all_final_chunks) >= 3
    /\ Len(result.chunks) = 2
    /\ all_final_chunks[1].text # all_final_chunks[Len(all_final_chunks)].text

\* ------------------------------------------- orchestrator properties
\* C13: a parseable classifier response lacking a required field, on an
\* attempt that is not the last, counts as one failed attempt and the
\* classifier tries again.
C13_StructuralFailureRetried ==
    [][(/\ stage = "classify"
        /\ cls_response' = "missing_field"
        /\ cls_attempts + 1 < MaxAttempts)
          => (stage' = "classify" /\ cls_attempts' = cls_attempts + 1)]_vars

\* C14: once the classifier has seen a response lacking a required field it
\* has returned None, and for that document no Segmenter is constructed or
\* run and upsert_records is never called.
C14_MissingFieldStopsDocument ==
    cls_response = "missing_field" =>
        /\ initial_metadata = "None"
        /\ exit_path = "metadata_failed"
        /\ pc = "idle"
        /\ returned = <<>>
        /\ stage \notin {"segment", "upsert"}
        /\ upsert_calls = 0

C14_Witness ==
    /\ variant = "pl"
    /\ cls_response = "missing_field"
    /\ stage = "returned"
    /\ tmp_file = "removed"

\* C15: when process_pdf_upload has finished, by return or by exception, a
\* temporary file it created has been removed.
C15_TempFileRemoved ==
    (variant = "pl" /\ stage \in {"returned", "raised"}) => tmp_file # "exists"

\* C16: in process_pdf_upload upsert_records is called at most once for the
\* document, only after process_document has returned normally (with
\* extracted text and metadata), and never when extraction gave no text,
\* classification failed or segmentation raised.
C16_UpsertOnlyAfterSegmentation ==
    variant = "pl" =>
        /\ upsert_calls <= 1
        /\ upsert_calls = 1 =>
             /\ pc = "done"
             /\ doc # <<>>
             /\ initial_metadata = "dict"
             /\ Texts(all_final_chunks) = returned
             /\ exit_path \in {"success", "upsert_failed"}
        /\ exit_path \in {"empty_extraction", "metadata_failed",
                           "segmentation_raised"} => upsert_calls = 0

C16_Witness ==
    /\ variant = "pl"
    /\ stage = "returned"
    /\ upsert_calls = 1
    /\ exit_path = "success"
    /\ Len(all_final_chunks) >= 2

\* C17: in a step that makes or follows a failed upsert_records call,
\* all_final_chunks is unchanged, no segmentation call runs or returns, and
\* the orchestrator is not left by an exception.
C17_UpsertFailureNotFatal ==
    [][exit_path' = "upsert_failed" =>
          /\ all_final_chunks' = all_final_chunks
          /\ returned' = returned
          /\ pc' = "done"
          /\ stage' \notin {"finally_raising", "raised"}]_vars

C17_Witness ==
    /\ exit_path = "upsert_failed"
    /\ stage = "returned"
    /\ upsert_calls = 1
    /\ Len(all_final_chunks) >= 2

\* C18: in both orchestrators upsert_records is never called for a document
\* whose segmentation produced no chunks.
C18_NoUpsertWithoutChunks ==
    upsert_calls > 0 => all_final_chunks # <<>>

\* a successful segmentation call has handed back a remainder
RemainderHandedBack == last = "call_ok" /\ result.remainder # <<>>

\* C19: process_folder eventually starts every PDF of the folder, whatever
\* fails on the way (read for a service that, when it answers, leaves no
\* remainder: the PDFs before may fail in extraction, classification, every
\* attempt of a segmentation call, or the upsert).
C19_EveryPdfStarted ==
    variant = "bp" => <>(pdfs_left = 0 \/ RemainderHandedBack)

\* ------------------------------------------- chunks and their records
\* C21: an iteration of semantic_chunker.py that takes the failure branch
\* (remainder absent) collects no chunk and mints no identifier, whatever
\* parsed response the service gave.
C21_FailureBranchCollectsNothing ==
    [][(variant = "sc" /\ WindowReturned /\ result'.absent)
          => (all_final_chunks' = all_final_chunks /\ next_id' = next_id)]_vars

\* C22: every collected chunk carries the title, jurisdiction and language
\* of the document's metadata, whatever the service returns.
C22_ChunksCarryDocumentMetadata ==
    \A i \in DOMAIN all_final_chunks : all_final_chunks[i].meta = "doc"

\* s is an initial part of t
IsPrefix(s, t) == Len(s) <= Len(t) /\ SubSeq(t, 1, Len(s)) = s

\* C24: with max_segments = k, every window the main loop submits is one of
\* the first k iterations (so at most k are submitted and window k+1 never
\* is), and no step, the stop at the cap included, removes or reorders a
\* chunk already collected.
C24_CapStopsAtBoundary ==
    [][(variant = "sc" /\ max_segments # NoCap) =>
          /\ (pc = "loop" /\ pc' = "call") =>
                /\ segment_index' = segment_index + 1
                /\ segment_index' <= max_segments
          /\ (pc = "loop" /\ segment_index >= max_segments) => pc' = "cleanup"
          /\ last' = "cap" => all_final_chunks' = all_final_chunks
          /\ IsPrefix(all_final_chunks, all_final_chunks')]_vars

C24_Witness ==
    /\ variant = "sc"
    /\ max_segments = MaxCap
    /\ last = "cap"
    /\ pc = "cleanup"
    /\ segment_index = max_segments + 1
    /\ cursor < Len(doc)
    /\ Len(all_final_chunks) >= 2

\* the chunk of Article 1 and the chunk of Article 2
Article1 == SubSeq(ScenarioDoc, 1, 20)

Article2 == SubSeq(ScenarioDoc, 21, Len(ScenarioDoc))

\* C25: in the ARTICLE scenario, with a stub that never fails,
\* process_document terminates with Article 1's chunk (from window 1) and
\* Article 2's chunk collected.
C25_ScenarioTerminates ==
    (variant = "sc" /\ Uncapped) =>
        <>(\/ attempts > 0
           \/ /\ pc = "done"
              /\ \E i, j \in DOMAIN all_final_chunks :
                    /\ i < j
                    /\ all_final_chunks[i].text = Article1
                    /\ all_final_chunks[j].text = Article2)

\* the seven fields of a record
SevenFields == {"_id", "text", "article_number", "title", "jurisdiction",
                "language", "pdf_source_path"}

\* C23  Every record built by upsert_to_pinecone has all seven fields
\* (identifier, text, article number, title, jurisdiction, language, source
\* path), and its identifier and text are those of its chunk.
C23_RecordsCarrySevenFields ==
    upsert_calls > 0 =>
        /\ Len(records) = Len(all_final_chunks)
        /\ \A i \in DOMAIN records :
              /\ SevenFields \subseteq DOMAIN records[i]
              /\ records[i]._id = all_final_chunks[i].id
              /\ records[i].text = all_final_chunks[i].text

\* one invocation of upsert_to_pinecone runs to its end with an index
UpsertInvoked == stage = "upsert" /\ stage' # "upsert" /\ exit_path' # "no_index"

\* C28  One invocation of upsert_to_pinecone makes exactly one upsert call,
\* whose records are one per chunk, in the chunks' order, each under its
\* chunk's identifier.
C28_OneCallOneRecordPerChunk ==
    [][UpsertInvoked =>
          /\ upsert_calls' = upsert_calls + 1
          /\ Len(records') = Len(all_final_chunks)
          /\ \A i \in DOMAIN all_final_chunks :
                records'[i]._id = all_final_chunks[i].id]_vars

\* an invocation with several chunks has made its one call
C28_Witness ==
    /\ variant = "pl"
    /\ stage = DocumentOver
    /\ upsert_calls = 1
    /\ exit_path = "success"
    /\ Len(all_final_chunks) >= 3
    /\ Len(records) = Len(all_final_chunks)

\* C29  No upsert call carries more than UPSERT_BATCH_SIZE records, however
\* many chunks the document produced.
C29_BatchWithinLimit == Len(records) <= UPSERT_BATCH_SIZE

\* C30  A second upsert_to_pinecone call with the same chunks and source
\* path, after one that succeeded, leaves the vector store as it was: it
\* overwrites and adds no record.
C30_UpsertIdempotent ==
    [][(UpsertInvoked /\ exit_path = "success")
          => (store' = store /\ DOMAIN store' = DOMAIN store)]_vars

\* the store after two successful calls with the same non-empty chunks
C30_Witness ==
    /\ upsert_calls = 2
    /\ exit_path = "success"
    /\ stage = DocumentOver
    /\ Len(all_final_chunks) >= 2
    /\ Cardinality(DOMAIN store) = Len(all_final_chunks)

\* the records that the invocation with the locals l made for upload u are
\* one per chunk text returned by its own segmentation calls, in that order,
\* and name its own source path
OwnChunksUpserted(l, u) ==
    l.upsert_calls > 0 =>
        /\ [i \in DOMAIN l.records |-> l.records[i].text] = l.returned
        /\ \A i \in DOMAIN l.records :
              l.records[i].pdf_source_path = [upload |-> u, pdf |-> pdfs_left]

\* C26  Documents processed one after another (process_folder) or by
\* process_pdf_upload invocations interleaved in any order each have their
\* own Segmenter state: what is upserted for a document is exactly what the
\* segmentation calls made for that document returned.
C26_EachDocumentItsOwnChunks ==
    /\ OwnChunksUpserted(Locals, current)
    /\ current # 0 => OwnChunksUpserted(suspended, 3 - current)

\* both uploads are through, their segmentation calls having alternated
\* (the identifiers of one document's chunks are not consecutive)
C26_Witness ==
    /\ current # 0
    /\ exit_path = "success"
    /\ suspended.exit_path = "success"
    /\ doc # suspended.doc
    /\ Len(suspended.records) >= 2
    /\ \E i \in 1..(Len(records) - 1) : records[i + 1]._id > records[i]._id + 1

\* the invocation with the locals l has a classification or segmentation
\* call running
CallInFlight(l) == l.stage = "classify" \/ l.pc \in {"call", "final_call"}

\* C27  _reinit_client never replaces the module-level gemini_client while
\* a segmentation or classification call of another document is in flight.
C27_ReinitWhileNoOtherCall ==
    [][gemini_client' # gemini_client
          => (current = 0 \/ ~CallInFlight(suspended))]_vars

\* in a folder's second PDF the three attempts of a call have failed and
\* the client has been replaced
C27_Witness ==
    /\ variant = "bp"
    /\ pdfs_left < MaxPdfs - 1
    /\ stage = "segment"
    /\ pc = "call"
    /\ attempts = MaxAttempts
    /\ gemini_client = 1

\* the head of the while body has built a window (the cap did not stop it)
WindowBuilt == pc = "loop" /\ last' \in {"submit", "empty"}

\* C33  A window whose fresh slice is empty but whose carried remainder is
\* not is submitted to the service; the loop is left on empty input only
\* when both the remainder and the fresh slice are empty.
C33_RemainderAloneIsSubmitted ==
    [][WindowBuilt =>
          /\ last' = "empty" => (current_remainder = <<>> /\ new_segment' = <<>>)
          /\ current_remainder # <<>> =>
                /\ pc' = "call"
                /\ input_text' = current_remainder \o new_segment']_vars

\* a window made of the carried remainder alone is with the service
C33_Witness ==
    /\ pc = "call"
    /\ last = "submit"
    /\ new_segment = <<>>
    /\ current_remainder # <<>>
    /\ input_text = current_remainder

\* C34  The final cleanup step makes at most one segmentation call, on
\* exactly the carried remainder and no fresh text, and process_document
\* returns after it whatever it returned; it is never made again.
C34_CleanupCallsOnce ==
    [][/\ (pc # "final_call" /\ pc' = "final_call") =>
             (pc = "cleanup" /\ current_remainder # <<>>
                /\ input_text' = current_remainder)
       /\ (pc = "final_call" /\ pc' # "final_call") => pc' = "done"
       /\ pc = "done" => pc' = "done"]_vars

\* the final call has handed back a remainder and process_document is over
C34_Witness ==
    /\ pc = "done"
    /\ last = "final_ok"
    /\ result.remainder # <<>>
    /\ input_text = current_remainder

\* C36  When the loop of process_document is left because cursor >=
\* total_length, current_remainder is empty; so the final call after the
\* loop is made only in runs that the max_segments cap stopped, and never
\* in app/pipeline.py or common/build_pinecone_db.py.
C36_FinalCallOnlyAfterCap ==
    /\ (pc = "cleanup" /\ last = "exit") => current_remainder = <<>>
    /\ pc = "final_call" =>
          /\ variant = "sc"
          /\ max_segments # NoCap
          /\ segment_index > max_segments

\* the loop has ended at the end of a document of several windows, after a
\* service that returns remainders of its own choice
C36_Witness ==
    /\ pc = "cleanup"
    /\ last = "exit"
    /\ stub = "any"
    /\ variant = "pl"
    /\ Len(doc) > MAX_SEGMENT_SIZE
    /\ cursor = Len(doc)

\* the collected chunk texts are the document up to the cursor, and the
\* carried remainder is the document's text from the cursor on
Aligned ==
    /\ Concat(Texts(all_final_chunks)) = PySlice(doc, 0, cursor)
    /\ current_remainder = PySlice(doc, cursor, cursor + Len(current_remainder))

\* C37  If every response of the service is its input split into chunk
\* texts followed by a remainder that is a suffix of the input, then at the
\* start of every iteration the texts of all_final_chunks concatenate to
\* full_raw_text[0:cursor] and current_remainder is
\* full_raw_text[cursor : cursor + len(current_remainder)]: it holds at the
\* first iteration and every such response keeps it.
C37_CollectedPrefixCarriedSuffix ==
    /\ Aligned
    /\ [][(stub \in {"echo", "split"} /\ Aligned /\ WindowReturned
              /\ ~result'.failed) => Aligned']_vars

\* an iteration starts with several chunks collected and a remainder carried
C37_Witness ==
    /\ stub = "split"
    /\ pc = "loop"
    /\ last = "call_ok"
    /\ Len(all_final_chunks) >= 2
    /\ current_remainder # <<>>
    /\ cursor < Len(doc)
    /\ Aligned

\* C38  all_final_chunks only grows at its end during process_document: at
\* every step the sequence before is a prefix of the sequence after, so no
\* chunk appended earlier changes its identifier or its fields, across
\* failed windows, the cap and the final cleanup call.
C38_ChunksAppendOnly ==
    [][IsPrefix(all_final_chunks, all_final_chunks')]_vars

\* the final cleanup call after the cap has added a chunk to earlier ones
C38_Witness ==
    /\ pc = "done"
    /\ last = "final_ok"
    /\ result.chunks # <<>>
    /\ Len(all_final_chunks) > Len(result.chunks)

\* the waits made are RETRY_DELAY_SECONDS * 2^i after failed attempt i, one
\* per failed attempt that another attempt of the loop follows
BackoffBeforeRetryOnly ==
    /\ \A i \in DOMAIN sleeps : sleeps[i] = RETRY_DELAY_SECONDS * 2 ^ (i - 1)
    /\ Len(sleeps) <= MaxAttempts - 1
    /\ (pc \in {"call", "final_call"} /\ attempts < MaxAttempts)
          => Len(sleeps) = attempts
    /\ stage = "classify" => Len(sleeps) = cls_attempts

\* C35  In the retry loops the wait after failed attempt i (i = 0, 1, 2) is
\* RETRY_DELAY_SECONDS * 2^i, and a wait is made only before another
\* attempt: none follows the last of the 3 attempts.
C35_WaitOnlyBeforeRetry == BackoffBeforeRetryOnly

\* ------------------------------------------------------------------
\* populate.py: seeding the HelpOS backend

\* the state of the chunking programs
chunking == <<variant, stub, doc, MAX_SEGMENT_SIZE, max_segments, uploads,
              gemini_client, sleeps, segmenter, next_id, pipeline>>

SeedTopics == 2
SeedQuestions == 2
MaxRuns == 2
MaxEdits == 1

option(option_id, label) ==
    [id |-> option_id, label |-> label, terminal |-> FALSE]

\* bundles of one topic, its forms and each form's questions
INTERVIEW_DATA ==
    [b \in 1..SeedTopics |->
        [topic |-> [name |-> <<"topic", b>>],
         forms |-> <<[form |-> [title |-> <<"form", b>>],
                      questions |->
                          [q \in 1..SeedQuestions |->
                              [text |-> <<"question", b, q>>,
                               answerType |-> IF q = 1 THEN "CHECKBOX"
                                                       ELSE "RADIO",
                               answerOptions |-> <<option("a", "Yes"),
                                                   option("b", "No")>>]]]>>]]

\* [opt["label"] for opt in options]
Labels(options) == [i \in DOMAIN options |-> options[i].label]

FirstMatch_LastOnly(keys, key) ==
    IF keys # <<>> /\ keys[Len(keys)] = key THEN Len(keys) ELSE 0

\* the first item of a listing whose key equals the definition's, 0 if none
FirstMatch(keys, key) ==
    IF \E i \in DOMAIN keys : keys[i] = key
    THEN CHOOSE i \in DOMAIN keys :
             keys[i] = key /\ \A j \in 1..(i - 1) : keys[j] # key
    ELSE 0

Mismatch_TypeOnly(question, question_def) ==
    question.answerType # question_def.answerType

\* actual_type != expected_type or actual_labels != expected_option_labels
Mismatch(question, question_def) ==
    \/ question.answerType # question_def.answerType
    \/ Labels(question.answerOptions) # Labels(question_def.answerOptions)

\* the backend's listings, in the order it returns them
FormsOf(topic_id) ==
    SelectSeq(backend.forms, LAMBDA form : form.topic = topic_id)

QuestionsOf(form_id) ==
    SelectSeq(backend.questions, LAMBDA question : question.form = form_id)

\* the id the backend gives to the next item it creates
NewId == Len(backend.topics) + Len(backend.forms) + Len(backend.questions) + 1

\* what the requests of one ensure_* call can do: the GET fails, the item
\* is found, or the POST is made and succeeds, fails, or fails after the
\* backend has stored the item
Outcomes(found) ==
    {"get_failed"} \cup
        (IF found # 0 THEN {"reused"}
                      ELSE {"created", "post_failed", "post_lost"})

Stored(outcome) == outcome \in {"created", "post_lost"}

Posted(outcome) == outcome \in {"created", "post_failed", "post_lost"}

\* except requests.RequestException: return 1;  except RuntimeError: return 2
Returned(code, outcome) ==
    [seeder EXCEPT !.exit = code, !.log = outcome,
                   !.at = IF code = 0 THEN "done" ELSE @,
                   !.seeded = @ \/ code = 0,
                   !.posts = IF Posted(outcome) THEN @ + 1 ELSE @]

\* the loops of main(): what is ensured next
AfterBundle(b) ==
    IF b < Len(INTERVIEW_DATA)
    THEN [at |-> "topic", b |-> b + 1, f |-> 1, q |-> 1]
    ELSE [at |-> "done", b |-> b, f |-> 1, q |-> 1]

AfterForm(b, f) ==
    IF f < Len(INTERVIEW_DATA[b].forms)
    THEN [at |-> "form", b |-> b, f |-> f + 1, q |-> 1]
    ELSE AfterBundle(b)

AfterQuestion(b, f, q) ==
    IF q < Len(INTERVIEW_DATA[b].forms[f].questions)
    THEN [at |-> "question", b |-> b, f |-> f, q |-> q + 1]
    ELSE AfterForm(b, f)

Continued(pos, outcome) ==
    IF pos.at = "done"
    THEN [Returned(0, outcome) EXCEPT !.b = pos.b, !.f = pos.f, !.q = pos.q]
    ELSE [seeder EXCEPT !.at = pos.at, !.b = pos.b, !.f = pos.f,
                        !.q = pos.q, !.log = outcome,
                        !.posts = IF Posted(outcome) THEN @ + 1 ELSE @]

EnsureTopic ==
    /\ seeder.exit = NoExit
    /\ seeder.at = "topic"
    /\ LET topic_def == INTERVIEW_DATA[seeder.b].topic
           existing == backend.topics
           found == FirstMatch([i \in DOMAIN existing |-> existing[i].name],
                               topic_def.name)
           created == [id |-> NewId, name |-> topic_def.name]
           topic == IF found # 0 THEN existing[found] ELSE created
           pos == IF INTERVIEW_DATA[seeder.b].forms # <<>>
                  THEN [at |-> "form", b |-> seeder.b, f |-> 1, q |-> 1]
                  ELSE AfterBundle(seeder.b)
       IN  \E outcome \in Outcomes(found) :
               /\ backend' = IF Stored(outcome)
                             THEN [backend EXCEPT !.topics = Append(@, created)]
                             ELSE backend
               /\ seeder' = IF outcome \in {"reused", "created"}
                            THEN [Continued(pos, outcome)
                                      EXCEPT !.topic = topic.id]
                            ELSE Returned(1, outcome)
    /\ UNCHANGED <<chunking, embedder, requests>>

EnsureForm ==
    /\ seeder.exit = NoExit
    /\ seeder.at = "form"
    /\ LET form_def == INTERVIEW_DATA[seeder.b].forms[seeder.f].form
           existing == FormsOf(seeder.topic)
           found == FirstMatch([i \in DOMAIN existing |-> existing[i].title],
                               form_def.title)
           created == [id |-> NewId, topic |-> seeder.topic,
                       title |-> form_def.title]
           form == IF found # 0 THEN existing[found] ELSE created
           pos == IF INTERVIEW_DATA[seeder.b].forms[seeder.f].questions # <<>>
                  THEN [at |-> "question", b |-> seeder.b, f |-> seeder.f,
                        q |-> 1]
                  ELSE AfterForm(seeder.b, seeder.f)
       IN  \E outcome \in Outcomes(found) :
               /\ backend' = IF Stored(outcome)
                             THEN [backend EXCEPT !.forms = Append(@, created)]
                             ELSE backend
               /\ seeder' = IF outcome \in {"reused", "created"}
                            THEN [Continued(pos, outcome)
                                      EXCEPT !.form = form.id]
                            ELSE Returned(1, outcome)
    /\ UNCHANGED <<chunking, embedder, requests>>

\* the definition main() is about to ensure, and the question of the form
\* that has its text
question_def ==
    INTERVIEW_DATA[seeder.b].forms[seeder.f].questions[seeder.q]

SameText ==
    LET existing == QuestionsOf(seeder.form)
    IN  FirstMatch([i \in DOMAIN existing |-> existing[i].text],
                   question_def.text)

EnsureQuestion ==
    /\ seeder.exit = NoExit
    /\ seeder.at = "question"
    /\ LET existing == QuestionsOf(seeder.form)
           found == SameText
           created == [id |-> NewId, form |-> seeder.form,
                       text |-> question_def.text,
                       answerType |-> question_def.answerType,
                       answerOptions |-> question_def.answerOptions]
           pos == AfterQuestion(seeder.b, seeder.f, seeder.q)
       IN  \/ /\ found # 0
              /\ Mismatch(existing[found], question_def)
              /\ backend' = backend
              /\ seeder' = Returned(2, "mismatch")
           \/ /\ found # 0 => ~Mismatch(existing[found], question_def)
              /\ \E outcome \in Outcomes(found) :
                     /\ backend' = IF Stored(outcome)
                                   THEN [backend EXCEPT
                                            !.questions = Append(@, created)]
                                   ELSE backend
                     /\ seeder' = IF outcome \in {"reused", "created"}
                                  THEN Continued(pos, outcome)
                                  ELSE Returned(1, outcome)
           \/ /\ found # 0
              /\ Mismatch(existing[found], question_def)
              /\ backend' = backend
              /\ seeder' = Returned(1, "get_failed")
    /\ UNCHANGED <<chunking, embedder, requests>>

\* sys.exit(main()) once more
RunAgain ==
    /\ seeder.exit # NoExit
    /\ seeder.run < MaxRuns
    /\ seeder' = SeederAtStart(seeder.run + 1, seeder.seeded)
    /\ UNCHANGED <<chunking, embedder, requests, backend>>

Reversed(seq) == [i \in DOMAIN seq |-> seq[Len(seq) + 1 - i]]

Edited(question, how) ==
    CASE how = "type" ->
             [question EXCEPT !.answerType = IF @ = "RADIO" THEN "CHECKBOX"
                                                            ELSE "RADIO"]
      [] how = "labels" ->
             [question EXCEPT !.answerOptions = Reversed(@)]
      [] how = "values" ->
             [question EXCEPT !.answerOptions =
                 [i \in DOMAIN @ |-> option("z", @[i].label)]]

\* between two runs somebody changes a question in the backend
EditQuestion ==
    /\ seeder.exit # NoExit
    /\ backend.edits < MaxEdits
    /\ \E i \in DOMAIN backend.questions, how \in {"type", "labels", "values"} :
           backend' = [backend EXCEPT !.questions[i] = Edited(@, how),
                                      !.edits = @ + 1]
    /\ UNCHANGED <<chunking, embedder, requests, seeder>>

\* populate.py alone: no document is being processed
InitSeeder ==
    /\ InitUpsert
    /\ variant = "pl"
    /\ all_final_chunks = <<>>

NextSeeder ==
    \/ EnsureTopic
    \/ EnsureForm
    \/ EnsureQuestion
    \/ RunAgain
    \/ EditQuestion

SeederSpec == InitSeeder /\ [][NextSeeder]_vars

\* C31  The seeder is idempotent: once a run of main() has returned 0 and
\* the backend has kept what it holds, every request of a later run reuses
\* the topic, form or question it looks for (or fails to reach the
\* backend): no POST is issued and the backend's contents do not change.
C31_SecondRunCreatesNothing ==
    [][(seeder.seeded /\ backend.edits = 0 /\ seeder.exit = NoExit)
          => /\ backend' = backend
             /\ seeder'.posts = 0
             /\ seeder'.log \in {"reused", "get_failed"}
             /\ seeder'.exit \in {NoExit, 0, 1}]_vars

\* a second run has gone through every definition and returned 0
C31_Witness ==
    /\ seeder.run > 1
    /\ seeder.seeded
    /\ backend.edits = 0
    /\ seeder.exit = 0
    /\ seeder.log = "reused"
    /\ seeder.posts = 0
    /\ Len(backend.questions) = SeedTopics * SeedQuestions

\* the form holds a question with the definition's text whose answerType or
\* ordered option labels are not the definition's
DiffersFromDefinition ==
    /\ seeder.exit = NoExit
    /\ seeder.at = "question"
    /\ SameText # 0
    /\ LET question == QuestionsOf(seeder.form)[SameText]
       IN  \/ question.answerType # question_def.answerType
           \/ \E i \in DOMAIN question.answerOptions :
                  question.answerOptions[i].label #
                      question_def.answerOptions[i].label

\* C32  When the form already holds a question with the definition's text
\* but another answerType or another ordered list of option labels, and
\* the listing request succeeds, ensure_question raises and main returns
\* 2; no question is created for that definition, and none afterwards in
\* that run.
C32_MismatchStopsSeeding ==
    [][/\ (DiffersFromDefinition /\ seeder'.log # "get_failed")
              => /\ seeder'.exit = 2
                 /\ backend' = backend
       /\ (seeder.exit = 2 /\ seeder'.run = seeder.run)
              => Len(backend'.questions) = Len(backend.questions)]_vars

\* main has returned 2 on an edited question while later definitions have
\* no question in the backend
C32_Witness ==
    /\ seeder.exit = 2
    /\ seeder.log = "mismatch"
    /\ backend.edits > 0
    /\ Len(backend.questions) < SeedTopics * SeedQuestions

\* ------------------------------------------------------------------
\* embed_kb.py: embedding the chunks' texts in batches

MaxTexts == 201

BATCH_SIZE == 100

EmbedAttempts == 3

\* what one attempt can do: embed_content answers (after the alternate
\* call, when the first raised a TypeError) or the attempt raises
AttemptOutcomes == {"full", "short", "long", "alt_full", "failed",
                    "alt_failed"}

\* the embeddings of a response: one per text of the batch, in order, or
\* one too few or one too many when the response is malformed
Normalized(batch_texts, outcome) ==
    CASE outcome \in {"full", "alt_full"} -> batch_texts
      [] outcome = "short" -> PySlice(batch_texts, 0, Len(batch_texts) - 1)
      [] outcome = "long" -> Append(batch_texts, 0)

\* main(): texts_to_embed of the loaded chunks, then get_embeddings
CallGetEmbeddings ==
    /\ embedder.returned = "not_called"
    /\ \E n \in 0..MaxTexts :
           embedder' = Embedding([j \in 1..n |-> j], "running")
    /\ UNCHANGED <<chunking, backend, seeder, requests>>

Complete_NonEmpty(all_embeddings, texts) == all_embeddings # <<>>

\* if len(all_embeddings) == len(texts)
Complete(all_embeddings, texts) == Len(all_embeddings) = Len(texts)

\* the attempts made for the batch that starts at embedder.i, this one
\* included
Tried(failed) ==
    LET b == embedder.i \div BATCH_SIZE + 1
        batch_texts == PySlice(embedder.texts, embedder.i,
                               embedder.i + BATCH_SIZE)
        before == IF b \in DOMAIN embedder.tried
                  THEN embedder.tried[b]
                  ELSE [size |-> Len(batch_texts), attempts |-> 0,
                        failures |-> 0]
        now == [before EXCEPT !.attempts = @ + 1,
                              !.failures = IF failed THEN @ + 1 ELSE @]
    IN  IF b \in DOMAIN embedder.tried
        THEN [embedder.tried EXCEPT ![b] = now]
        ELSE Append(embedder.tried, now)

\* one pass of  for attempt in range(3)  for the batch texts[i:i+BATCH_SIZE]
EmbedAttempt ==
    /\ embedder.returned = "running"
    /\ embedder.i < Len(embedder.texts)
    /\ LET batch_texts == PySlice(embedder.texts, embedder.i,
                                  embedder.i + BATCH_SIZE)
       IN  \E outcome \in AttemptOutcomes :
               embedder' =
                   IF outcome \in {"failed", "alt_failed"}
                   THEN IF embedder.attempt < EmbedAttempts - 1
                        THEN [embedder EXCEPT !.attempt = @ + 1,
                                              !.tried = Tried(TRUE)]
                        ELSE [embedder EXCEPT !.returned = "None",
                                              !.tried = Tried(TRUE)]
                   ELSE [embedder EXCEPT
                            !.all_embeddings =
                                @ \o Normalized(batch_texts, outcome),
                            !.i = @ + BATCH_SIZE,
                            !.attempt = 0,
                            !.tried = Tried(FALSE)]
    /\ UNCHANGED <<chunking, backend, seeder, requests>>

\* after the last batch
EmbedReturn ==
    /\ embedder.returned = "running"
    /\ embedder.i >= Len(embedder.texts)
    /\ embedder' = [embedder EXCEPT !.returned =
                       IF Complete(embedder.all_embeddings, embedder.texts)
                       THEN "list" ELSE "None"]
    /\ UNCHANGED <<chunking, backend, seeder, requests>>

InitEmbed == InitSeeder

NextEmbed ==
    \/ CallGetEmbeddings
    \/ EmbedAttempt
    \/ EmbedReturn

EmbedSpec == InitEmbed /\ [][NextEmbed]_vars

\* C39  get_embeddings is all-or-nothing: what it returns is None or a
\* list of exactly len(texts) embeddings; every batch it requests has at
\* most 100 texts and gets at most 3 attempts; a batch that has failed 3
\* attempts is the last one requested and the call has returned None.
C39_AllOrNothing ==
    /\ embedder.returned = "list"
           => Len(embedder.all_embeddings) = Len(embedder.texts)
    /\ \A b \in DOMAIN embedder.tried :
           /\ embedder.tried[b].size <= BATCH_SIZE
           /\ embedder.tried[b].attempts <= EmbedAttempts
           /\ embedder.tried[b].failures = EmbedAttempts
                  => /\ b = Len(embedder.tried)
                     /\ embedder.returned = "None"

\* the second of three batches has failed 3 times: None is returned and the
\* third batch was never requested
C39_Witness ==
    /\ Len(embedder.texts) > 2 * BATCH_SIZE
    /\ Len(embedder.tried) = 2
    /\ embedder.tried[2].failures = EmbedAttempts
    /\ embedder.returned = "None"

\* ------------------------------------------------------------------
\* app/index.py: the /upload_pdf endpoint

\* raise HTTPException(status_code, ...) or return the success response
Finished(request, code, path) ==
    [request EXCEPT !.at = "finished", !.status_code = code,
                    !.exit_path = path]

\* os.remove(temp_file_path)
Removed(request) == [request EXCEPT !.temp_file = "removed"]

\* the request arrives; only application/pdf is taken
Receive(r) ==
    /\ requests[r].at = "idle"
    /\ \E content_type \in {"application/pdf", "text/plain"} :
           requests' = [requests EXCEPT ![r] =
               IF content_type # "application/pdf"
               THEN Finished(@, 400, "not_pdf")
               ELSE [@ EXCEPT !.at = "save"]]
    /\ UNCHANGED <<chunking, backend, seeder, embedder>>

\* 1. NamedTemporaryFile(delete=False) creates the file, then the uploaded
\* bytes are read and written into it
SaveTemporaryFile(r) ==
    /\ requests[r].at = "save"
    /\ \E outcome \in {"create_failed", "write_failed", "ok"} :
           requests' = [requests EXCEPT ![r] =
               CASE outcome = "create_failed" ->
                        Finished(@, 500, "create_failed")
                 [] outcome = "write_failed" ->
                        Finished([@ EXCEPT !.temp_file = "exists"], 500,
                                 "write_failed")
                 [] outcome = "ok" ->
                        [@ EXCEPT !.temp_file = "exists", !.at = "store"]]
    /\ UNCHANGED <<chunking, backend, seeder, embedder>>

\* 2. upload to Supabase Storage
UploadToStorage(r) ==
    /\ requests[r].at = "store"
    /\ \E outcome \in {"failed", "ok"} :
           requests' = [requests EXCEPT ![r] =
               IF outcome = "failed"
               THEN Finished(Removed(@), 500, "storage_failed")
               ELSE [@ EXCEPT !.at = "trigger"]]
    /\ UNCHANGED <<chunking, backend, seeder, embedder>>

\* 3. trigger the pipeline in the background
TriggerPipeline(r) ==
    /\ requests[r].at = "trigger"
    /\ \E outcome \in {"failed", "ok"} :
           requests' = [requests EXCEPT ![r] =
               IF outcome = "failed"
               THEN Finished(Removed(@), 500, "trigger_failed")
               ELSE [@ EXCEPT !.at = "cleanup"]]
    /\ UNCHANGED <<chunking, backend, seeder, embedder>>

\* 4. clean up the temporary file and answer
CleanUp(r) ==
    /\ requests[r].at = "cleanup"
    /\ requests' = [requests EXCEPT ![r] =
                       Finished(Removed(@), 200, "success")]
    /\ UNCHANGED <<chunking, backend, seeder, embedder>>

InitUploadPdf == InitSeeder

NextUploadPdf ==
    \E r \in 1..MaxRequests :
        \/ Receive(r)
        \/ SaveTemporaryFile(r)
        \/ UploadToStorage(r)
        \/ TriggerPipeline(r)
        \/ CleanUp(r)

UploadPdfSpec == InitUploadPdf /\ [][NextUploadPdf]_vars

\* C40  When a request to /upload_pdf has finished, the temporary file it
\* created no longer exists, whichever way it finished: failure while
\* writing the uploaded bytes, storage upload failure, pipeline trigger
\* failure, or success.
C40_TempFileRemovedOnEveryExit ==
    \A r \in 1..MaxRequests :
        requests[r].at = "finished" => requests[r].temp_file # "exists"

====
